---- MODULE Spec2Model ----
(***************************************************************************)
(* SmartLedger AI (src/types.ts): the transaction store of the App         *)
(* component, its persistence in the localStorage slot                     *)
(* "smart_ledger_data", the aggregation of the dashboard and of the yearly *)
(* report, and the two calls of GeminiService with the loading flag that   *)
(* is shared between them.                                                 *)
(*                                                                         *)
(* JavaScript values are modelled by what the code does with them:         *)
(*   - an amount is a tagged value [k, n]: a finite number, Infinity, NaN, *)
(*     undefined, null, or the numeric string of a number input; a finite  *)
(*     number is an integer, n below 2^53 or h * 2^53 + n from there on,   *)
(*     and a sum is the double nearest to the exact sum;                   *)
(*   - a date is the sequence of its characters, so that startsWith is a   *)
(*     prefix test; the other strings are compared for equality and for    *)
(*     truthiness only ("" is the falsy string, and stands for an absent   *)
(*     member too: `x || d` treats undefined and "" alike);                *)
(*   - JSON text is the sequence of its member literals, where a number    *)
(*     that is not finite is written as the literal null.                  *)
(* The controlled form fields (amount, category, type, note, date,         *)
(* aiChatInput, isAdding) have unconditional setters, so the value a       *)
(* handler reads from them is an input of the handler's action.            *)
(***************************************************************************)
EXTENDS Integers, Sequences, FiniteSets, TLC

VARIABLES
    phase,          \* "boot": constructed, effects not yet run; "ready"; "crashed"
    transactions,   \* useState<Transaction[]>, newest first
    storage,        \* the localStorage slot "smart_ledger_data"
    viewMode,       \* 'dashboard' | 'reports'
    loading,        \* the loading flag shared by both AI calls
    aiAnalysis,     \* "null", "ok" or "malformed" (no recommendations array)
    calls,          \* pending generateContent calls, by kind
    last,           \* the handler that ran last, with what it sent or returned
    reportYear      \* useState(new Date().getFullYear()), the year of the report

vars ==
    <<phase, transactions, storage, viewMode, loading, aiAnalysis, calls, last, reportYear>>

----------------------------------------------------------------------------
(* Bounds of the model *)

MaxTx == 3          \* adds are explored while the list is shorter than this
MaxCalls == 2       \* AI calls are issued while fewer than this are pending
MaxExtra == 2       \* records added on top of a stored ledger of AnalysisWindow
MaxReportTx == 3    \* length to which the lists of the report statistics are explored
MaxYearSteps == 1   \* distance of the report year from the current year

(* Program constants *)

AnalysisWindow == 20        \* transactions.slice(-20)
MinForAnalysis == 3         \* disabled={loading || transactions.length < 3}

----------------------------------------------------------------------------
(* JavaScript values *)

Num(n) == [k |-> "number", n |-> n]
NumStr(n) == [k |-> "numstr", n |-> n]
Infinity == [k |-> "Infinity", n |-> 0]
NaN == [k |-> "NaN", n |-> 0]
Undefined == [k |-> "undefined", n |-> 0]
Null == [k |-> "null", n |-> 0]

\* A finite number at or beyond 2^53 in magnitude, where a double no longer
\* holds every integer: the value h * 2^53 + n, h # 0, |n| far below 2^53.
Big(h, n) == [k |-> "big", h |-> h, n |-> n]
BigStr(h, n) == [k |-> "bigstr", h |-> h, n |-> n]

\* the multiple of 2^53 in a finite number
High(v) == IF v.k \in {"big", "bigstr"} THEN v.h ELSE 0

RECURSIVE Ulp(_)
\* the distance between neighbouring doubles in [h * 2^53, (h + 1) * 2^53),
\* h >= 1; 1 for h = 0
Ulp(h) == IF h = 0 THEN 1 ELSE 2 * Ulp(h \div 2)

\* the multiple of u nearest to s; a tie goes to the even multiple
Nearest(s, u) ==
    LET r == s % u
        lo == s - r
    IN  IF 2 * r < u THEN lo
        ELSE IF 2 * r > u THEN lo + u
        ELSE IF lo % (2 * u) = 0 THEN lo ELSE lo + u

\* the double nearest to h * 2^53 + s, h >= 1 (round to nearest, ties to even)
DoublePos(h, s) == Big(h, Nearest(s, IF s >= 0 THEN Ulp(h) ELSE Ulp(h - 1)))

\* the double nearest to h * 2^53 + s: what an addition or a conversion
\* whose exact result is that value returns
Double(h, s) ==
    IF h = 0 THEN Num(s)
    ELSE IF h > 0 THEN DoublePos(h, s)
    ELSE Big(-DoublePos(-h, -s).h, -DoublePos(-h, -s).n)

\* Number(v)
Number(v) ==
    CASE v.k \in {"number", "big", "Infinity"} -> v
      [] v.k = "numstr" -> Num(v.n)
      [] v.k = "bigstr" -> Double(v.h, v.n)
      [] v.k = "null" -> Num(0)
      [] OTHER -> NaN

\* v || 0 for a value Number() returned
OrZero(v) == IF v.k = "NaN" \/ (v.k = "number" /\ v.n = 0) THEN Num(0) ELSE v

\* sum + t.amount, sum being a number or Infinity (null converts to 0)
Plus(sum, a) ==
    CASE sum.k = "Infinity" \/ a.k = "Infinity" -> Infinity
      [] OTHER -> Double(High(sum) + High(a), sum.n + a.n)

\* income - expense
Minus(a, b) ==
    CASE a.k = "Infinity" /\ b.k = "Infinity" -> NaN
      [] a.k = "Infinity" -> Infinity
      [] b.k = "Infinity" -> [k |-> "-Infinity", n |-> 0]
      [] OTHER -> Double(High(a) - High(b), a.n - b.n)

\* s.startsWith(p)
StartsWith(s, p) == Len(p) <= Len(s) /\ SubSeq(s, 1, Len(p)) = p

RECURSIVE TrimStart(_)
TrimStart(s) == IF s # <<>> /\ Head(s) = " " THEN TrimStart(Tail(s)) ELSE s

RECURSIVE TrimEnd(_)
TrimEnd(s) ==
    IF s # <<>> /\ s[Len(s)] = " " THEN TrimEnd(SubSeq(s, 1, Len(s) - 1)) ELSE s

\* s.trim()
Trim(s) == TrimEnd(TrimStart(s))

\* new Date().toISOString().split('T')[0]
Today == <<"2", "0", "2", "4", "-", "0", "3", "-", "1", "5">>

\* new Date().toISOString().substring(0, 7)
CurrentMonth == SubSeq(Today, 1, 7)

\* new Date().getFullYear(), on the day of Today
FullYear == 2024

Digits == <<"0", "1", "2", "3", "4", "5", "6", "7", "8", "9">>

RECURSIVE DecimalDigits(_)
DecimalDigits(n) ==
    IF n < 10 THEN <<Digits[n + 1]>>
    ELSE DecimalDigits(n \div 10) \o <<Digits[(n % 10) + 1]>>

\* n.toString() of an integer
toString(n) == IF n < 0 THEN <<"-">> \o DecimalDigits(-n) ELSE DecimalDigits(n)

RECURSIVE padStart(_, _, _)
\* s.padStart(len, c)
padStart(s, len, c) == IF Len(s) >= len THEN s ELSE padStart(<<c>> \o s, len, c)

----------------------------------------------------------------------------
(* Transaction Store *)

\* Math.random().toString(36).substr(2, 9): up to nine base-36 digits of a
\* random fraction; nothing compares the draw with the ids already stored.
IdSpace == {"k3f9q", "x0"}

\* the record addTransaction builds from a Partial<Transaction> and the id drawn
\* (category 'Other' stands for the fallback label of line 144)
newTransaction(t, id) ==
    [ id |-> id,
      date |-> IF t.date # <<>> THEN t.date ELSE Today,
      amount |-> OrZero(Number(t.amount)),
      category |-> IF t.category # "" THEN t.category ELSE "Other",
      type |-> IF t.type # "" THEN t.type ELSE "expense",
      note |-> t.note ]

\* a variant that appends the new record
addTransactionAppends(prev, t, id) == prev \o <<newTransaction(t, id)>>

\* addTransaction: the list its updater prev => [newTransaction, ...prev] returns
addTransaction(prev, t, id) == <<newTransaction(t, id)>> \o prev

\* a variant with the filter's test inverted
KeepsSameId(t, id) == t.id = id

\* the filter's test: t => t.id !== id
KeepsOtherId(t, id) == t.id # id

\* the list the updater prev => prev.filter(...) of deleteTransaction returns
DeleteUpdater(prev, id) == SelectSeq(prev, LAMBDA t : KeepsOtherId(t, id))

----------------------------------------------------------------------------
(* Persistence: JSON.stringify / JSON.parse of the list, and the slot *)

\* the literal JSON.stringify writes for a number member
NumberLiteral(a) ==
    CASE a.k = "number" -> [lit |-> "number", n |-> a.n]
      [] a.k = "big" -> [lit |-> "big", h |-> a.h, n |-> a.n]
      [] OTHER -> [lit |-> "null", n |-> 0]

StringifyTransaction(t) ==
    [ id |-> t.id, date |-> t.date, amount |-> NumberLiteral(t.amount),
      category |-> t.category, type |-> t.type, note |-> t.note ]

\* JSON.stringify(transactions), as the value of the slot
JSONstringify(list) ==
    [ present |-> TRUE,
      items |-> [i \in 1..Len(list) |-> StringifyTransaction(list[i])] ]

\* the value JSON.parse reads back from a literal stringify wrote
ParseLiteral(l) ==
    CASE l.lit = "number" -> Num(l.n)
      [] l.lit = "big" -> Big(l.h, l.n)
      [] OTHER -> Null

ParseTransaction(o) ==
    [ id |-> o.id, date |-> o.date, amount |-> ParseLiteral(o.amount),
      category |-> o.category, type |-> o.type, note |-> o.note ]

\* JSON.parse(saved)
JSONparse(saved) == [i \in 1..Len(saved.items) |-> ParseTransaction(saved.items[i])]

\* localStorage.getItem of a slot never written
NoItem == [present |-> FALSE, items |-> <<>>]

----------------------------------------------------------------------------
(* Rendering: what makes the render of App throw *)

\* t.amount.toLocaleString() in the record list of the dashboard, and
\* aiAnalysis.recommendations.map in the assistant card
RenderThrows(list, analysis, view) ==
    /\ view = "dashboard"
    /\ \/ \E i \in 1..Len(list) : list[i].amount.k \in {"null", "undefined"}
       \/ analysis = "malformed"

----------------------------------------------------------------------------
(* Aggregation: the dashboard statistics of the current month *)

RECURSIVE SumAmounts(_, _)
\* list.reduce((sum, t) => sum + t.amount, 0)
SumAmounts(sum, list) ==
    IF list = <<>> THEN sum ELSE SumAmounts(Plus(sum, Head(list).amount), Tail(list))

OfType(list, type) == SelectSeq(list, LAMBDA t : t.type = type)

RECURSIVE CategoryReduce(_, _)
\* the reduce that groups by category, in first-seen order
CategoryReduce(acc, list) ==
    IF list = <<>> THEN acc
    ELSE LET t == Head(list)
             found == {i \in 1..Len(acc) : acc[i].name = t.category}
         IN  IF found # {}
             THEN LET i == CHOOSE j \in found : \A m \in found : j <= m
                  IN  CategoryReduce([acc EXCEPT ![i].value = Plus(@, t.amount)], Tail(list))
             ELSE CategoryReduce(Append(acc, [name |-> t.category, value |-> t.amount]),
                                 Tail(list))

\* the stats memo
stats(list) ==
    LET thisMonthTransactions == SelectSeq(list, LAMBDA t : StartsWith(t.date, CurrentMonth))
        income == SumAmounts(Num(0), OfType(thisMonthTransactions, "income"))
        expense == SumAmounts(Num(0), OfType(thisMonthTransactions, "expense"))
    IN  [ income |-> income, expense |-> expense, balance |-> Minus(income, expense),
          categoryData |-> CategoryReduce(<<>>, OfType(thisMonthTransactions, "expense")) ]

----------------------------------------------------------------------------
(* Aggregation: the report statistics of the year reportYear *)

MonthsOfYear == 12      \* Array.from({ length: 12 }, ...)
TopCount == 5           \* yearlyCategoryData.slice(0, 5)

\* (i + 1).toString().padStart(2, '0'), for the month number m = i + 1
MonthName(m) == padStart(toString(m), 2, "0")

\* a variant that builds the prefix from the month number as it is
MonthPrefixUnpadded(yearStr, m) == yearStr \o <<"-">> \o toString(m)

\* `${yearStr}-${month}`
MonthPrefix(yearStr, m) == yearStr \o <<"-">> \o MonthName(m)

\* the entry of monthlyData for month m (its name without the label suffix)
MonthEntry(yearTransactions, yearStr, m) ==
    LET monthTrans ==
            SelectSeq(yearTransactions, LAMBDA t : StartsWith(t.date, MonthPrefix(yearStr, m)))
    IN  [ name |-> MonthName(m),
          income |-> SumAmounts(Num(0), OfType(monthTrans, "income")),
          expense |-> SumAmounts(Num(0), OfType(monthTrans, "expense")) ]

\* the sign sort() reads from a comparator result (NaN counts as 0)
Sign(v) ==
    CASE v.k = "number" -> IF v.n > 0 THEN 1 ELSE IF v.n < 0 THEN -1 ELSE 0
      [] v.k = "big" -> IF v.h > 0 THEN 1 ELSE -1
      [] v.k = "Infinity" -> 1
      [] v.k = "-Infinity" -> -1
      [] OTHER -> 0

\* a variant of the comparator that sorts ascending
CompareAscending(a, b) == Sign(Minus(a.value, b.value))

\* the comparator (a, b) => b.value - a.value: positive when a goes after b
CompareByValue(a, b) == Sign(Minus(b.value, a.value))

RECURSIVE InsertSorted(_, _)
\* x put into a sorted list behind every item that does not go after it
InsertSorted(sorted, x) ==
    IF sorted = <<>> THEN <<x>>
    ELSE LET n == Len(sorted)
         IN  IF CompareByValue(sorted[n], x) > 0
             THEN InsertSorted(SubSeq(sorted, 1, n - 1), x) \o <<sorted[n]>>
             ELSE sorted \o <<x>>

RECURSIVE SortFrom(_, _)
SortFrom(sorted, rest) ==
    IF rest = <<>> THEN sorted ELSE SortFrom(InsertSorted(sorted, Head(rest)), Tail(rest))

\* data.sort((a, b) => b.value - a.value): Array.prototype.sort is stable
SortByValue(data) == SortFrom(<<>>, data)

\* the reportStats memo
reportStats(list, year) ==
    LET yearStr == toString(year)
        yearTransactions == SelectSeq(list, LAMBDA t : StartsWith(t.date, yearStr))
    IN  [ monthlyData |->
              [m \in 1..MonthsOfYear |-> MonthEntry(yearTransactions, yearStr, m)],
          yearlyCategoryData |->
              SortByValue(CategoryReduce(<<>>, OfType(yearTransactions, "expense"))),
          totalYearIncome |-> SumAmounts(Num(0), OfType(yearTransactions, "income")),
          totalYearExpense |-> SumAmounts(Num(0), OfType(yearTransactions, "expense")) ]

\* Math.round((value / total) * 100), for a value and a total that are
\* integers below 2^53 with an exact quotient, or infinite
Percent(value, total) ==
    CASE value.k = "number" /\ total.k = "number" /\ total.n = 0 ->
             IF value.n = 0 THEN NaN
             ELSE IF value.n > 0 THEN Infinity ELSE [k |-> "-Infinity", n |-> 0]
      [] value.k = "number" /\ total.k = "number" /\ total.n > 0 ->
             Num((200 * value.n + total.n) \div (2 * total.n))
      [] value.k = "number" /\ total.k = "number" /\ total.n < 0 ->
             Num((0 - 200 * value.n - total.n) \div (0 - 2 * total.n))
      [] value.k = "number" /\ total.k = "Infinity" -> Num(0)
      [] value.k = "Infinity" /\ total.k = "Infinity" -> NaN
      [] value.k = "Infinity" /\ total.k = "number" ->
             IF total.n < 0 THEN [k |-> "-Infinity", n |-> 0] ELSE Infinity

\* the percentages the report shows beside the first TopCount categories,
\* rendered only when yearlyCategoryData is not empty
TopPercents(list, year) ==
    LET r == reportStats(list, year)
        shown == IF Len(r.yearlyCategoryData) <= TopCount THEN r.yearlyCategoryData
                 ELSE SubSeq(r.yearlyCategoryData, 1, TopCount)
    IN  [i \in 1..Len(shown) |->
            [name |-> shown[i].name, percent |-> Percent(shown[i].value, r.totalYearExpense)]]

----------------------------------------------------------------------------
(* AI Bridge: GeminiService *)

\* what generateContent can do: reject (network error, service error) or
\* resolve with a response whose text is undefined, is not JSON, is the JSON
\* null, or is a JSON object
NoObject == [amount |-> [lit |-> "absent", n |-> 0], category |-> "", type |-> "", note |-> ""]

Rejections == {"network error", "service error"}

Response(outcome, syntax, obj) == [outcome |-> outcome, syntax |-> syntax, obj |-> obj]

\* parse responses: an object that matches the schema and is a usable record,
\* one whose amount overflows a double and whose required type is missing,
\* and one that matches the schema with a negative amount and a type that is
\* neither 'expense' nor 'income'
ParseObjects ==
    { [amount |-> [lit |-> "number", n |-> 120], category |-> "Food", type |-> "expense",
       note |-> "lunch"],
      [amount |-> [lit |-> "overflow", n |-> 0], category |-> "", type |-> "", note |-> ""],
      [amount |-> [lit |-> "number", n |-> -3], category |-> "Transport", type |-> "Expense",
       note |-> ""] }

ParseResponses ==
    {Response(r, "none", NoObject) : r \in Rejections}
    \cup {Response("response", x, NoObject) : x \in {"undefined", "invalid", "null"}}
    \cup {Response("response", "object", o) : o \in ParseObjects}

\* JSON.parse of a number literal of the response
ParseNumber(l) ==
    CASE l.lit = "number" -> Num(l.n)
      [] l.lit = "overflow" -> Infinity
      [] OTHER -> Undefined

\* JSON.parse(response.text.trim()) of an object text, as a Partial<Transaction>
ParseObject(o) ==
    [ date |-> <<>>, amount |-> ParseNumber(o.amount), category |-> o.category,
      type |-> o.type, note |-> o.note ]

NullResult == [isNull |-> TRUE, value |-> ParseObject(NoObject)]

\* parseNaturalLanguage: the try block returns what JSON.parse returns, the
\* catch block returns null
parseNaturalLanguage(resp) ==
    IF resp.outcome \in Rejections THEN NullResult
    ELSE IF resp.syntax \in {"undefined", "invalid"} THEN NullResult
    ELSE IF resp.syntax = "null" THEN NullResult
    ELSE [isNull |-> FALSE, value |-> ParseObject(resp.obj)]

\* transactions.slice(-20)
SliceLast(list) ==
    IF Len(list) <= AnalysisWindow THEN list
    ELSE SubSeq(list, Len(list) - AnalysisWindow + 1, Len(list))

\* one line of the analysis prompt: date: sign amount (category) - note
RenderLine(t) ==
    [ date |-> t.date, sign |-> IF t.type = "expense" THEN "-" ELSE "+",
      amount |-> t.amount, category |-> t.category, note |-> t.note ]

\* the summary analyzeSpending embeds in its request
Summary(list) == [i \in 1..Len(SliceLast(list)) |-> RenderLine(SliceLast(list)[i])]

\* a variant that sends a request for every list
RequestsAlways(list) == TRUE

\* analyzeSpending before its request: `if (transactions.length === 0) return
\* null` leaves without calling generateContent
Requests(list) == Len(list) # 0

\* analysis responses: the object is "ok" (summary and recommendations) or
\* "malformed" (an object without a recommendations array)
AnalysisResponses ==
    {Response(r, "none", "none") : r \in Rejections}
    \cup {Response("response", x, "none") : x \in {"undefined", "invalid", "null"}}
    \cup {Response("response", "object", o) : o \in {"ok", "malformed"}}

\* what analyzeSpending returns once generateContent has settled
analyzeSpending(resp) ==
    IF resp.outcome \in Rejections THEN "null"
    ELSE IF resp.syntax \in {"undefined", "invalid"} THEN "null"
    ELSE IF resp.syntax = "null" THEN "null"
    ELSE resp.obj

----------------------------------------------------------------------------
(* The App component *)

NoCandidate == ParseObject(NoObject)

\* the record of the handler that ran last, for the handlers that change the
\* list or talk to the service; the other handlers leave Idle
Event(op, id, cand, sent, returned) ==
    [ op |-> op, id |-> id, cand |-> cand, sent |-> sent, returned |-> returned,
      len |-> IF op \in {"add", "delete"} THEN Len(transactions) ELSE 0 ]

Idle == Event("", "", NoCandidate, <<>>, "")

NoCalls == [parse |-> 0, analyze |-> 0]
Pending == calls.parse + calls.analyze

\* the save effect: localStorage.setItem('smart_ledger_data', JSON.stringify(transactions))
SaveEffect(list) == JSONstringify(list)

\* the load effect: the list it passes to setTransactions, if any
LoadEffect(saved) ==
    IF saved.present THEN [set |-> TRUE, list |-> JSONparse(saved)]
    ELSE [set |-> FALSE, list |-> <<>>]

\* the manual form: amount is the text of a required number input
ManualForms ==
    { [amount |-> NumStr(120), category |-> "Food", type |-> "expense", note |-> "lunch",
       date |-> Today],
      [amount |-> NumStr(-5), category |-> "Salary", type |-> "income", note |-> "",
       date |-> <<"2", "0", "2", "4", "-", "0", "2", "-", "2", "8">>] }

\* the Partial<Transaction> handleManualSubmit passes to addTransaction
ManualCandidate(form) ==
    [ amount |-> Number(form.amount), category |-> form.category, type |-> form.type,
      note |-> form.note, date |-> form.date ]

\* what can be in the AI input box when a trigger fires
ChatInputs == {<<>>, <<" ">>, <<"l", "u", "n", "c", "h", " ", "1", "2", "0">>}

Init ==
    /\ phase = "boot"
    /\ transactions = <<>>
    /\ storage = NoItem
    /\ viewMode = "dashboard"
    /\ loading = FALSE
    /\ aiAnalysis = "null"
    /\ calls = NoCalls
    /\ last = Idle
    /\ reportYear = FullYear

\* A variant of the mount whose save effect runs once, on the first render only.
StartupSavesOnce ==
    /\ phase = "boot"
    /\ LET load == LoadEffect(storage)
           throws == load.set /\ RenderThrows(load.list, aiAnalysis, viewMode)
       IN  /\ transactions' = IF load.set /\ ~throws THEN load.list ELSE <<>>
           /\ storage' = SaveEffect(<<>>)
           /\ phase' = IF throws THEN "crashed" ELSE "ready"
    /\ last' = Event("startup", "", NoCandidate, <<>>, "")
    /\ UNCHANGED <<viewMode, loading, aiAnalysis, calls, reportYear>>

\* The mount: the first render shows the empty list, then both effects run in
\* order (load, save), then the list the load effect set is rendered and, if
\* that render commits, saved by the save effect again.
Startup ==
    /\ phase = "boot"
    /\ LET load == LoadEffect(storage)
           throws == load.set /\ RenderThrows(load.list, aiAnalysis, viewMode)
       IN  /\ transactions' = IF load.set /\ ~throws THEN load.list ELSE <<>>
           /\ storage' = IF load.set /\ ~throws THEN SaveEffect(load.list)
                         ELSE SaveEffect(<<>>)
           /\ phase' = IF throws THEN "crashed" ELSE "ready"
    /\ last' = Event("startup", "", NoCandidate, <<>>, "")
    /\ UNCHANGED <<viewMode, loading, aiAnalysis, calls, reportYear>>

\* The page is loaded again: App is constructed anew, the slot stays.
Reload ==
    /\ phase # "boot"
    /\ phase' = "boot"
    /\ transactions' = <<>>
    /\ viewMode' = "dashboard"
    /\ loading' = FALSE
    /\ aiAnalysis' = "null"
    /\ calls' = NoCalls
    /\ last' = Idle
    /\ reportYear' = FullYear
    /\ UNCHANGED storage

setViewMode(v) ==
    /\ phase = "ready"
    /\ v # viewMode
    /\ viewMode' = v
    /\ phase' = IF RenderThrows(transactions, aiAnalysis, v) THEN "crashed" ELSE "ready"
    /\ last' = Idle
    /\ UNCHANGED <<transactions, storage, loading, aiAnalysis, calls, reportYear>>

\* handleManualSubmit, with the save effect of the render it causes; explored
\* while the list is shorter than bound
SubmitWithin(form, id, bound) ==
    /\ phase = "ready"
    /\ Len(transactions) < bound
    /\ LET cand == ManualCandidate(form)
       IN  /\ transactions' = addTransaction(transactions, cand, id)
           /\ last' = Event("add", id, cand, <<>>, "")
    /\ storage' = SaveEffect(transactions')
    /\ UNCHANGED <<phase, viewMode, loading, aiAnalysis, calls, reportYear>>

handleManualSubmit(form, id) == SubmitWithin(form, id, MaxTx)

\* deleteTransaction, from the delete button of a record of the dashboard
deleteTransaction(id, confirmed) ==
    /\ phase = "ready"
    /\ viewMode = "dashboard"
    /\ IF confirmed
       THEN /\ transactions' = DeleteUpdater(transactions, id)
            /\ storage' = SaveEffect(transactions')
            /\ last' = Event("delete", id, NoCandidate, <<>>, "")
       ELSE /\ UNCHANGED <<transactions, storage>>
            /\ last' = Idle
    /\ UNCHANGED <<phase, viewMode, loading, aiAnalysis, calls, reportYear>>

\* handleAiInput up to its await: from the button (disabled while loading or
\* with an empty box) or from the Enter key of the box
handleAiInput(text, trigger) ==
    /\ phase = "ready"
    /\ viewMode = "dashboard"
    /\ trigger = "button" => ~loading /\ text # <<>>
    /\ IF Trim(text) = <<>>
       THEN /\ last' = Idle
            /\ UNCHANGED <<loading, calls>>
       ELSE /\ Pending < MaxCalls
            /\ loading' = TRUE
            /\ calls' = [calls EXCEPT !.parse = @ + 1]
            /\ last' = Event("aiInput", "", NoCandidate, <<>>, "")
    /\ UNCHANGED <<phase, transactions, storage, viewMode, aiAnalysis, reportYear>>

\* handleAiInput from its await on: the call settles with resp
ParseReturn(resp) ==
    /\ phase = "ready"
    /\ calls.parse > 0
    /\ LET result == parseNaturalLanguage(resp)
       IN  IF ~result.isNull
           THEN /\ Len(transactions) < MaxTx
                /\ \E id \in IdSpace :
                      /\ transactions' = addTransaction(transactions, result.value, id)
                      /\ last' = Event("add", id, result.value, <<>>, "value")
                /\ storage' = SaveEffect(transactions')
           ELSE /\ UNCHANGED <<transactions, storage>>
                /\ last' = Event("parseReturn", "", NoCandidate, <<>>, "null")
    /\ loading' = FALSE
    /\ calls' = [calls EXCEPT !.parse = @ - 1]
    /\ UNCHANGED <<phase, viewMode, aiAnalysis, reportYear>>

\* requestAnalysis past the button: setLoading(true), then analyzeSpending up
\* to its await; for a list that sends nothing the call returns null at once
\* and setAiAnalysis(null), setLoading(false) follow in the same step
AnalyzeCall ==
    /\ phase = "ready"
    /\ IF ~Requests(transactions)
       THEN /\ loading' = FALSE
            /\ aiAnalysis' = "null"
            /\ last' = Event("requestAnalysis", "", NoCandidate, <<>>, "null")
            /\ UNCHANGED calls
       ELSE /\ Pending < MaxCalls
            /\ loading' = TRUE
            /\ calls' = [calls EXCEPT !.analyze = @ + 1]
            /\ last' = Event("requestAnalysis", "", NoCandidate, Summary(transactions), "")
            /\ UNCHANGED aiAnalysis
    /\ UNCHANGED <<phase, transactions, storage, viewMode, reportYear>>

\* requestAnalysis, from the analysis button: rendered while aiAnalysis is
\* null, disabled while loading or with fewer than three records
requestAnalysis ==
    /\ viewMode = "dashboard"
    /\ aiAnalysis = "null"
    /\ ~loading
    /\ Len(transactions) >= MinForAnalysis
    /\ AnalyzeCall

\* requestAnalysis from its await on: the call settles with resp
AnalyzeReturn(resp) ==
    /\ phase = "ready"
    /\ calls.analyze > 0
    /\ LET analysis == analyzeSpending(resp)
       IN  /\ aiAnalysis' = analysis
           /\ phase' = IF RenderThrows(transactions, analysis, viewMode)
                       THEN "crashed" ELSE "ready"
           /\ last' = Event("analyzeReturn", "", NoCandidate, <<>>,
                            IF analysis = "null" THEN "null" ELSE "value")
    /\ loading' = FALSE
    /\ calls' = [calls EXCEPT !.analyze = @ - 1]
    /\ UNCHANGED <<transactions, storage, viewMode, reportYear>>

Next ==
    \/ Startup
    \/ Reload
    \/ \E v \in {"dashboard", "reports"} : setViewMode(v)
    \/ \E form \in ManualForms, id \in IdSpace : handleManualSubmit(form, id)
    \/ \E id \in IdSpace, confirmed \in BOOLEAN : deleteTransaction(id, confirmed)
    \/ \E text \in ChatInputs, trigger \in {"button", "enter"} : handleAiInput(text, trigger)
    \/ \E resp \in ParseResponses : ParseReturn(resp)
    \/ requestAnalysis
    \/ \E resp \in AnalysisResponses : AnalyzeReturn(resp)

Spec == Init /\ [][Next]_vars

----------------------------------------------------------------------------
(* The same component started on a slot that earlier sessions filled with  *)
(* AnalysisWindow manual records, so that the list can outgrow the window  *)
(* of analyzeSpending.                                                     *)

StoredLedger ==
    [ i \in 1..AnalysisWindow |->
        newTransaction(
            ManualCandidate([amount |-> NumStr(120), category |-> "Food", type |-> "expense",
                             note |-> "lunch", date |-> Today]),
            "r" \o ToString(i)) ]

InitLedger ==
    /\ phase = "boot"
    /\ transactions = <<>>
    /\ storage = SaveEffect(StoredLedger)
    /\ viewMode = "dashboard"
    /\ loading = FALSE
    /\ aiAnalysis = "null"
    /\ calls = NoCalls
    /\ last = Idle
    /\ reportYear = FullYear

NextLedger ==
    \/ Startup
    \/ Reload
    \/ \E v \in {"dashboard", "reports"} : setViewMode(v)
    \/ \E form \in ManualForms, id \in IdSpace :
          SubmitWithin(form, id, AnalysisWindow + MaxExtra)
    \/ \E id \in IdSpace, confirmed \in BOOLEAN : deleteTransaction(id, confirmed)
    \/ \E text \in ChatInputs, trigger \in {"button", "enter"} : handleAiInput(text, trigger)
    \/ \E resp \in ParseResponses : ParseReturn(resp)
    \/ requestAnalysis
    \/ \E resp \in AnalysisResponses : AnalyzeReturn(resp)

SpecLedger == InitLedger /\ [][NextLedger]_vars

----------------------------------------------------------------------------
(* The statistics of the dashboard and of the yearly report, over lists    *)
(* that the manual form builds from amounts 0, 1 and 2^53, dates of the    *)
(* current month, of another month, of another year and of the year 20240, *)
(* and over the years that the year selector reaches.                      *)

ReportForms ==
    { [amount |-> NumStr(1), category |-> "Transport", type |-> "expense", note |-> "",
       date |-> <<>>],
      [amount |-> NumStr(1), category |-> "Food", type |-> "expense", note |-> "",
       date |-> <<"2", "0", "2", "4", "-", "0", "2", "-", "2", "8">>],
      [amount |-> NumStr(0), category |-> "Food", type |-> "expense", note |-> "",
       date |-> <<"2", "0", "2", "3", "-", "1", "2", "-", "3", "1">>],
      [amount |-> BigStr(1, 0), category |-> "Food", type |-> "expense", note |-> "",
       date |-> Today],
      [amount |-> NumStr(1), category |-> "Salary", type |-> "income", note |-> "",
       date |-> <<"2", "0", "2", "4", "-", "0", "2", "-", "2", "8">>],
      [amount |-> NumStr(1), category |-> "Shopping", type |-> "expense", note |-> "",
       date |-> <<"2", "0", "2", "4", "0", "-", "0", "3", "-", "1", "5">>] }

\* the id drawn for each of these records: the statistics never read it
ReportId == "x0"

\* the two buttons of the year selector: setReportYear(y => y - 1), (y => y + 1)
setReportYear(step) ==
    /\ phase = "ready"
    /\ viewMode = "reports"
    /\ reportYear + step \in (FullYear - MaxYearSteps)..(FullYear + MaxYearSteps)
    /\ reportYear' = reportYear + step
    /\ last' = Idle
    /\ UNCHANGED <<phase, transactions, storage, viewMode, loading, aiAnalysis, calls>>

NextReport ==
    \/ Startup
    \/ \E v \in {"dashboard", "reports"} : setViewMode(v)
    \/ \E form \in ReportForms : SubmitWithin(form, ReportId, MaxReportTx)
    \/ \E step \in {-1, 1} : setReportYear(step)

SpecReport == Init /\ [][NextReport]_vars

----------------------------------------------------------------------------
(* GeminiService.analyzeSpending called on whatever list the store holds,  *)
(* by a caller that does not go through the analysis button.               *)

NextService ==
    \/ Startup
    \/ \E form \in ManualForms, id \in IdSpace : handleManualSubmit(form, id)
    \/ \E id \in IdSpace, confirmed \in BOOLEAN : deleteTransaction(id, confirmed)
    \/ AnalyzeCall
    \/ \E resp \in AnalysisResponses : AnalyzeReturn(resp)

SpecService == Init /\ [][NextService]_vars

----------------------------------------------------------------------------
(* Properties *)

Ready == phase = "ready"

\* the slot's item o is the record t: every member is t's field, the amount
\* written as the number it is
HoldsRecord(o, t) ==
    /\ o.id = t.id /\ o.date = t.date /\ o.category = t.category
    /\ o.type = t.type /\ o.note = t.note
    /\ t.amount.k = "number" /\ o.amount = [lit |-> "number", n |-> t.amount.n]

\* the slot holds exactly the list: same records, same order
HoldsList(slot, list) ==
    /\ slot.present
    /\ Len(slot.items) = Len(list)
    /\ \A i \in 1..Len(list) : HoldsRecord(slot.items[i], list[i])

\* C1: once the save step of the last mutation has run, the slot
\* "smart_ledger_data" holds exactly the in-memory transaction list.
C1_SlotHoldsList == Ready => HoldsList(storage, transactions)

\* the slot holds a list of Transaction records: every amount is a number
HoldsTransactions(slot) ==
    slot.present /\ \A i \in 1..Len(slot.items) : slot.items[i].amount.lit = "number"

\* C2: started on a slot that holds a transaction list L, the app settles with
\* the in-memory list equal to L (order and fields) and the slot holding L
\* again.
C2_StartupRoundTrip ==
    [][ (phase = "boot" /\ HoldsTransactions(storage))
          => /\ phase' = "ready"
             /\ storage' = storage
             /\ HoldsList(storage, transactions') ]_vars

\* C2 happens: a startup has loaded two different records.
C2_Witness ==
    /\ Ready /\ last.op = "startup"
    /\ Len(transactions) >= 2 /\ transactions[1] # transactions[2]

\* C3: an add puts the normalized candidate at index 0 and leaves the earlier
\* records behind it, each unchanged and in the same order.
C3_AddPrepends ==
    [][ last'.op = "add"
          => /\ Len(transactions') = Len(transactions) + 1
             /\ transactions'[1] = newTransaction(last'.cand, last'.id)
             /\ \A i \in 1..Len(transactions) : transactions'[i + 1] = transactions[i] ]_vars

\* C3 happens: an add onto a list of two different records.
C3_Witness ==
    /\ Ready /\ last.op = "add" /\ last.len = 2
    /\ Len(transactions) = 3 /\ transactions[2] # transactions[3]

\* C4: a confirmed delete(id) leaves no record with that id, leaves every
\* record with another id in place and in order, and raises nothing; with no
\* record of that id the list is unchanged.
C4_DeleteFrame ==
    [][ last'.op = "delete"
          => LET d == last'.id
                 kept == {i \in 1..Len(transactions) : transactions[i].id # d}
             IN  /\ phase' = "ready"
                 /\ Len(transactions') = Cardinality(kept)
                 /\ \A i \in kept :
                       transactions'[Cardinality({j \in kept : j <= i})] = transactions[i]
                 /\ (kept = 1..Len(transactions) => transactions' = transactions) ]_vars

\* C4 happens: a delete removed the record between two others.
C4_Witness ==
    /\ Ready /\ last.op = "delete" /\ last.len = 3
    /\ Len(transactions) = 2 /\ transactions[1] # transactions[2]

\* C5: no two records of the list have the same id.
C5_UniqueIds ==
    Ready => \A i, j \in 1..Len(transactions) :
                 i # j => transactions[i].id # transactions[j].id

InWindow(list) == SelectSeq(list, LAMBDA t : StartsWith(t.date, CurrentMonth))

\* C6: every record has type 'income' or 'expense', so the income and expense
\* sums of the current month add up to the sum of all amounts of that month.
C6_TypeBuckets ==
    Ready => /\ \A i \in 1..Len(transactions) :
                   transactions[i].type \in {"income", "expense"}
             /\ Plus(stats(transactions).income, stats(transactions).expense)
                  = SumAmounts(Num(0), InWindow(transactions))

\* C7: every stored amount is a magnitude, never negative.
C7_AmountsNonNegative ==
    Ready => \A i \in 1..Len(transactions) :
                 transactions[i].amount.k = "number" => transactions[i].amount.n >= 0

\* the number of times x occurs in the sequence q
Count(q, x) == Cardinality({i \in 1..Len(q) : q[i] = x})

\* the most recently added records: the list is newest first
MostRecent(list) ==
    SubSeq(list, 1, IF Len(list) <= AnalysisWindow THEN Len(list) ELSE AnalysisWindow)

\* C8: the analysis request renders exactly the 20 most recently added records
\* (all of them when there are 20 or fewer).
C8_AnalyzesMostRecent ==
    last.op = "requestAnalysis"
      => /\ Len(last.sent) = Len(MostRecent(transactions))
         /\ \A i \in 1..Len(transactions) :
               Count(last.sent, RenderLine(transactions[i]))
                 = Count([j \in 1..Len(MostRecent(transactions))
                            |-> RenderLine(MostRecent(transactions)[j])],
                         RenderLine(transactions[i]))

\* C9: at most one external AI call is in flight at any time.
C9_OneCallInFlight == Pending <= 1

\* the failures of a parse round trip: the call rejects, the body is missing or
\* is not JSON, or the JSON object lacks the required amount or type
ParseFailure(resp) ==
    \/ resp.outcome \in Rejections
    \/ resp.syntax \in {"undefined", "invalid"}
    \/ resp.syntax = "object" /\ (resp.obj.amount.lit = "absent" \/ resp.obj.type = "")

\* the failures of an analysis round trip
AnalysisFailure(resp) ==
    \/ resp.outcome \in Rejections
    \/ resp.syntax \in {"undefined", "invalid"}
    \/ resp.syntax = "object" /\ resp.obj = "malformed"

\* C10: on every failure of the round trip parseFreeText and analyze return
\* null to the caller.
C10_NullOnFailure ==
    [][ /\ \A resp \in ParseResponses :
             ParseReturn(resp) /\ ParseFailure(resp) => last'.returned = "null"
        /\ \A resp \in AnalysisResponses :
             AnalyzeReturn(resp) /\ AnalysisFailure(resp) => last'.returned = "null" ]_vars

\* C11: analyzeSpending called with the empty list returns null and sends
\* nothing: the step of the call leaves the pending calls as they were and
\* records a null return with no request text.
C11_EmptyListNoRequest ==
    [][ (AnalyzeCall /\ transactions = <<>>)
        => /\ calls' = calls
           /\ last'.op = "requestAnalysis" /\ last'.returned = "null" /\ last'.sent = <<>>
           /\ aiAnalysis' = "null" /\ ~loading' ]_vars

\* the call was made on the empty list and has returned
C11_Witness ==
    /\ transactions = <<>> /\ last.op = "requestAnalysis" /\ last.returned = "null"
    /\ Pending = 0

\* sum of value over the entries of a category list, from 0
SumValues(data) == SumAmounts(Num(0), [i \in 1..Len(data) |-> [amount |-> data[i].value]])

\* C12: the category entries add up to the expense total of the set they
\* group: categoryData to the dashboard's expense of the current month, and
\* yearlyCategoryData to totalYearExpense of the report year.
C12_CategoriesSumToExpense ==
    /\ SumValues(stats(transactions).categoryData) = stats(transactions).expense
    /\ SumValues(reportStats(transactions, reportYear).yearlyCategoryData)
         = reportStats(transactions, reportYear).totalYearExpense

RECURSIVE UpToDash(_)
\* the characters of s before its first "-"
UpToDash(s) == IF s = <<>> \/ Head(s) = "-" THEN <<>> ELSE <<Head(s)>> \o UpToDash(Tail(s))

\* the year and the month a date of the form year-month-day names
YearPart(date) == UpToDash(date)
MonthPart(date) == UpToDash(SubSeq(date, Len(YearPart(date)) + 2, Len(date)))

\* the records of the list of one type that are dated in month m of the year
OfMonth(list, type, year, m) ==
    SelectSeq(list, LAMBDA t : /\ t.type = type
                               /\ YearPart(t.date) = toString(year)
                               /\ MonthPart(t.date) = MonthName(m))

\* C13: monthlyData has twelve entries, in month order; entry m holds the
\* summed income and the summed expense of month m of the report year, and
\* holds 0 for both when that month has no record.
C13_TwelveMonths ==
    LET monthlyData == reportStats(transactions, reportYear).monthlyData
    IN  /\ Len(monthlyData) = 12
        /\ \A m \in 1..12 :
              /\ monthlyData[m].name = MonthName(m)
              /\ monthlyData[m].income
                   = SumAmounts(Num(0), OfMonth(transactions, "income", reportYear, m))
              /\ monthlyData[m].expense
                   = SumAmounts(Num(0), OfMonth(transactions, "expense", reportYear, m))
              /\ (OfMonth(transactions, "income", reportYear, m) = <<>>
                   /\ OfMonth(transactions, "expense", reportYear, m) = <<>>)
                  => monthlyData[m].income = Num(0) /\ monthlyData[m].expense = Num(0)

\* the report year has income in one month, expense in another, and a month
\* without records
C13_Witness ==
    LET monthlyData == reportStats(transactions, reportYear).monthlyData
    IN  /\ Ready
        /\ \E a, b, c \in 1..12 :
              /\ a # b
              /\ monthlyData[a].income # Num(0)
              /\ monthlyData[b].expense # Num(0)
              /\ OfMonth(transactions, "income", reportYear, c) = <<>>
              /\ OfMonth(transactions, "expense", reportYear, c) = <<>>

\* a >= b for two sums (finite, or Infinity)
GreaterEq(a, b) ==
    \/ a.k = "Infinity"
    \/ /\ b.k # "Infinity"
       /\ \/ High(a) > High(b)
          \/ High(a) = High(b) /\ a.n >= b.n

\* where the scan of the list first meets an expense record of the report
\* year with this category
FirstSeen(name) ==
    LET at == {i \in 1..Len(transactions) :
                  /\ transactions[i].type = "expense"
                  /\ StartsWith(transactions[i].date, toString(reportYear))
                  /\ transactions[i].category = name}
    IN  CHOOSE i \in at : \A j \in at : i <= j

C15_ZeroTotalZeroPercent ==
    (Ready /\ viewMode = "reports"
       /\ reportStats(transactions, reportYear).totalYearExpense = Num(0))
    => \A i \in 1..Len(TopPercents(transactions, reportYear)) :
           TopPercents(transactions, reportYear)[i].percent = Num(0)

\* sum of the income, or of the expense, of the entries of monthlyData, from 0
SumMonths(monthlyData, field) ==
    SumAmounts(Num(0), [m \in 1..Len(monthlyData) |-> [amount |-> monthlyData[m][field]]])

\* C16: the twelve monthly incomes add up to totalYearIncome and the twelve
\* monthly expenses to totalYearExpense, for every list the store holds and
\* every report year selected.
C16_MonthsSumToYear ==
    LET r == reportStats(transactions, reportYear)
    IN  /\ SumMonths(r.monthlyData, "income") = r.totalYearIncome
        /\ SumMonths(r.monthlyData, "expense") = r.totalYearExpense

\* C17: loading is true exactly when a parse or an analysis call is pending.
C17_LoadingTracksPending == loading <=> Pending > 0

====
